---- MODULE Spec2Model ----
(***************************************************************************)
(* KnowledgeBankGrpcServiceImpl (research/carls/knowledge_bank_grpc_       *)
(* service.cc): the session registry es_map_ / gd_map_ behind map_mu_,     *)
(* and the handlers StartSession, Lookup, Update, KnowledgeBankSize.       *)
(* Every handler is cut at its lock acquisitions: one step takes map_mu_,  *)
(* the next runs the critical section and releases it.                     *)
(*                                                                         *)
(* Embedding values are integers in units of 0.1 (fixed point), so that    *)
(* learning_rate 0.1 is the integer 1.                                     *)
(***************************************************************************)
EXTENDS Integers, Sequences, FiniteSets, TLC

\* Bounds of the model.
MaxCalls == 2
MaxSeqCalls == 3
MaxClientCalls == 3

MaxSnapshotCalls == 5
MaxFairCalls == 2
MaxUpdateCalls == 2

\* Two concurrent callers.
Threads == {1, 2}

----------------------------------------------------------------------------
\* Data: keys, vectors, proto maps.

AllKeys == {"", "a", "b", "c"}

\* An EmbeddingVectorProto is a sequence of numbers; Absent marks "no entry".
Absent == <<>>

ZeroVector(dim) == [i \in 1..dim |-> 0]

\* A proto map<string, EmbeddingVectorProto>: key -> vector or Absent.
EmptyMap == [k \in AllKeys |-> Absent]

MapKeys(m) == {k \in AllKeys : m[k] # Absent}

MapEmpty(m) == MapKeys(m) = {}

\* The orders in which a map's entries can be iterated.
IterOrders(m) ==
  {s \in [1..Cardinality(MapKeys(m)) -> MapKeys(m)] :
     \A i, j \in DOMAIN s : i # j => s[i] # s[j]}

----------------------------------------------------------------------------
\* StartSessionRequest, DynamicEmbeddingConfig and the session handle.

DefaultConfig ==
  [embedding_dimension |-> 0, backend |-> "", has_gd |-> FALSE,
   learning_rate |-> 0]

BuildConfig(dimension, learning_rate) ==
  [embedding_dimension |-> dimension, backend |-> "InProtoKnowledgeBank",
   has_gd |-> TRUE, learning_rate |-> learning_rate]

DefaultRequest == [name |-> "", has_config |-> FALSE, config |-> DefaultConfig]

\* request->SerializeAsString(): the fields that differ from their default,
\* in field order. The empty request serializes to the empty string.
SerializeAsString(request) ==
  (IF request.name # ""
     THEN <<[tag |-> 1, name |-> request.name, config |-> DefaultConfig]>>
     ELSE <<>>)
  \o
  (IF request.has_config
     THEN <<[tag |-> 2, name |-> "", config |-> request.config]>>
     ELSE <<>>)

RECURSIVE ParseFields(_, _)
ParseFields(bytes, request) ==
  IF bytes = <<>> THEN request
  ELSE LET f == Head(bytes) IN
       ParseFields(Tail(bytes),
         IF f.tag = 1 THEN [request EXCEPT !.name = f.name]
         ELSE [request EXCEPT !.has_config = TRUE, !.config = f.config])

\* request.ParseFromString(session_handle)
ParseFromString(session_handle) == ParseFields(session_handle, DefaultRequest)

----------------------------------------------------------------------------
\* The external collaborators: EmbeddingStore (KnowledgeBank) and Optimizer.

NullStore == [present |-> FALSE, dimension |-> 0, tbl |-> EmptyMap]

NullOptimizer == [present |-> FALSE, dimension |-> 0, learning_rate |-> 0]

\* KnowledgeBankFactory::Make: a store, or nullptr when no backend is selected
\* or the dimension is not positive.
Make(backend, embedding_dimension) ==
  IF backend = "InProtoKnowledgeBank" /\ embedding_dimension > 0
    THEN [present |-> TRUE, dimension |-> embedding_dimension, tbl |-> EmptyMap]
    ELSE NullStore

\* GradientDescentOptimizer::Create: an optimizer, or nullptr on a bad config.
Create(embedding_dimension, config) ==
  IF config.learning_rate > 0 /\ embedding_dimension > 0
    THEN [present |-> TRUE, dimension |-> embedding_dimension,
          learning_rate |-> config.learning_rate]
    ELSE NullOptimizer

Range(s) == {s[i] : i \in DOMAIN s}

\* BatchLookup: per key the stored vector, or an error (Absent) for a key the
\* store does not hold. A pure read.
BatchLookup(store, keys) == [i \in DOMAIN keys |-> store.tbl[keys[i]]]

\* BatchLookupWithUpdate: keys the store does not hold are created with the
\* initial (zero) value first.
BatchLookupWithUpdateStore(store, keys) ==
  [store EXCEPT !.tbl =
     [k \in AllKeys |->
        IF k \in Range(keys) /\ store.tbl[k] = Absent
          THEN ZeroVector(store.dimension) ELSE store.tbl[k]]]

\* BatchUpdate: put values[i] under keys[i], a later pair winning.
BatchUpdate(store, keys, values) ==
  LET n == IF Len(keys) < Len(values) THEN Len(keys) ELSE Len(values)
      Last(k) == CHOOSE i \in 1..n :
                   keys[i] = k /\ \A j \in 1..n : keys[j] = k => j <= i
  IN [store EXCEPT !.tbl =
        [k \in AllKeys |->
           IF \E i \in 1..n : keys[i] = k THEN values[Last(k)]
           ELSE store.tbl[k]]]

\* What a batch read hands back: one result per key, or, when the store
\* breaks its contract, a list that is one result short.
Returned(results) ==
  {results} \cup
  (IF results = <<>> THEN {} ELSE {SubSeq(results, 1, Len(results) - 1)})

\* Optimizer::Apply (SGD): vector i minus learning_rate times gradient i, for
\* every vector it is given; or no result (an empty list) on failure.
SgdStep(optimizer, embeddings, gradients) ==
  [i \in DOMAIN embeddings |->
     [j \in DOMAIN embeddings[i] |->
        embeddings[i][j] - optimizer.learning_rate * gradients[i][j]]]

ApplyResults(optimizer, embeddings, gradients) ==
  {<<>>, SgdStep(optimizer, embeddings, gradients)}

\* The order in which a store writes its keys to a snapshot.
KeyOrder == <<"", "a", "b", "c">>

NoFile == [exists |-> FALSE, entries |-> <<>>]

\* KnowledgeBank::Export: the snapshot of a store, one entry per key it holds.
ExportStore(store) ==
  LET all == [i \in DOMAIN KeyOrder |->
                [key |-> KeyOrder[i], vector |-> store.tbl[KeyOrder[i]]]]
      Held(e) == e.vector # Absent
  IN [exists |-> TRUE, entries |-> SelectSeq(all, Held)]

\* ImportStore that merges the snapshot into what the store holds.
ImportStore_Merge(store, file) ==
  [store EXCEPT !.tbl =
     [k \in AllKeys |->
        IF \E i \in DOMAIN file.entries : file.entries[i].key = k
          THEN file.entries[CHOOSE i \in DOMAIN file.entries :
                              file.entries[i].key = k].vector
          ELSE store.tbl[k]]]

\* KnowledgeBank::Import: the store holds what the snapshot holds, no more.
ImportStore(store, file) ==
  [store EXCEPT !.tbl =
     [k \in AllKeys |->
        IF \E i \in DOMAIN file.entries : file.entries[i].key = k
          THEN file.entries[CHOOSE i \in DOMAIN file.entries :
                              file.entries[i].key = k].vector
          ELSE Absent]]

\* JoinPath(directory, name, "embedding_store_meta_data.pbtxt")
ExportPath(directory, name) ==
  <<directory, name, "embedding_store_meta_data.pbtxt">>

Directories == {"tmp"}

Paths == {ExportPath(d, n) : d \in Directories, n \in {"", "emb", "other"}}

----------------------------------------------------------------------------
\* The requests the callers draw from.

TestConfig == BuildConfig(2, 1)

GoodRequest == [name |-> "emb", has_config |-> TRUE, config |-> TestConfig]

\* The other requests: no gradient-descent config; an optimizer config that
\* does not construct; a store config that does not construct; an empty name
\* with a config; the empty request.
OtherRequests ==
  { [GoodRequest EXCEPT !.config.has_gd = FALSE, !.config.learning_rate = 0],
    [GoodRequest EXCEPT !.config.learning_rate = 0],
    [GoodRequest EXCEPT !.config.backend = ""],
    [GoodRequest EXCEPT !.name = ""],
    DefaultRequest }

SessionRequests == {GoodRequest} \cup OtherRequests

\* A run's callers draw their sessions from one of these sets.
Worlds == {{GoodRequest, r} : r \in OtherRequests}

Handles == {SerializeAsString(r) : r \in SessionRequests}

KeyLists == {<<>>, <<"a">>, <<"b", "a">>}

ValueMaps ==
  { EmptyMap,
    [EmptyMap EXCEPT !["a"] = <<10, 30>>],
    [EmptyMap EXCEPT !["a"] = <<20, -10>>, !["b"] = <<-50, 10>>] }

GradientMaps ==
  { EmptyMap,
    [EmptyMap EXCEPT !["a"] = <<1, 2>>, !["b"] = <<3, 4>>] }

HandlesOf(requests) == {SerializeAsString(r) : r \in requests}

LookupRequests(requests) ==
  [session_handle : HandlesOf(requests), key : KeyLists, update : BOOLEAN]

UpdateRequests(requests) ==
  [session_handle : HandlesOf(requests), values : ValueMaps,
   gradients : GradientMaps]

----------------------------------------------------------------------------
\* State.

VARIABLES
  es_map,     \* session handle -> EmbeddingStore (present or not)
  gd_map,     \* session handle -> Optimizer (present or not)
  map_mu,     \* the registry lock: its exclusive holder (0: none), its readers
  pc,         \* per caller: where its handler stands
  req,        \* per caller: the request of the call in progress
  ret,        \* per caller: the status and response of its last finished call
              \* (results: how many results the store handed to a Lookup)
  calls,      \* calls started so far
  kb_made,    \* session handle -> stores constructed for it so far
  gd_made,    \* session handle -> optimizers constructed for it so far
  issued,     \* (request, handle) of every StartSession that returned OK, in order
  world,      \* the session requests this run's callers draw from
  de_manager, \* per caller: its DynamicEmbeddingManager (created or not)
  cop,        \* per caller: the manager call in progress
  cret,       \* per caller: the status and output of its last manager call
  client_calls, \* manager calls started so far
  files       \* path -> the snapshot file at that path (or none)

clientVars == <<de_manager, cop, cret, client_calls, files>>

vars ==
  <<es_map, gd_map, map_mu, pc, req, ret, calls, kb_made, gd_made, issued,
    world, de_manager, cop, cret, client_calls, files>>

NoReq ==
  [op |-> "none", start |-> DefaultRequest, session_handle |-> <<>>,
   key |-> <<>>, update |-> FALSE, values |-> EmptyMap, gradients |-> EmptyMap,
   export_directory |-> "", import_path |-> <<>>,
   keys |-> <<>>, value_or_errors |-> <<>>]

NoRet ==
  [op |-> "none", code |-> "NONE", msg |-> "", session_handle |-> <<>>,
   embedding_table |-> EmptyMap, size |-> 0, results |-> 0,
   exported_path |-> <<>>]

Status(op, code, msg) == [NoRet EXCEPT !.op = op, !.code = code, !.msg = msg]

Unlocked == [writer |-> 0, readers |-> {}]

\* A Tensor: its shape and its row-major buffer.
EmptyTensor == [shape |-> <<0>>, flat |-> <<>>]

NoManager ==
  [created |-> FALSE, session_handle |-> <<>>, config |-> DefaultConfig,
   name |-> ""]

NoCop ==
  [op |-> "none", keys |-> EmptyTensor, values |-> EmptyTensor,
   config |-> DefaultConfig, name |-> ""]

Message(text, a, b) == [text |-> text, a |-> a, b |-> b]

NoCret ==
  [op |-> "none", ok |-> FALSE, local |-> FALSE, msg |-> Message("", 0, 0),
   keys |-> EmptyTensor, values |-> EmptyTensor, output |-> EmptyTensor]

Init ==
  /\ es_map = [h \in Handles |-> NullStore]
  /\ gd_map = [h \in Handles |-> NullOptimizer]
  /\ map_mu = Unlocked
  /\ pc = [t \in Threads |-> "idle"]
  /\ req = [t \in Threads |-> NoReq]
  /\ ret = [t \in Threads |-> NoRet]
  /\ calls = 0
  /\ kb_made = [h \in Handles |-> 0]
  /\ gd_made = [h \in Handles |-> 0]
  /\ issued = <<>>
  /\ world \in Worlds
  /\ de_manager = [t \in Threads |-> NoManager]
  /\ cop = [t \in Threads |-> NoCop]
  /\ cret = [t \in Threads |-> NoCret]
  /\ client_calls = 0
  /\ files = [p \in Paths |-> NoFile]

Contains(map, session_handle) == map[session_handle].present

\* MapSize counting the optimizers instead of the stores.
MapSize_Optimizers(map) == Cardinality({h \in Handles : Contains(gd_map, h)})

\* es_map_.size()
MapSize(map) == Cardinality({h \in Handles : Contains(map, h)})

\* absl::MutexLock / WriterMutexLock: no holder of either kind.
CanLockExclusive_IgnoreReaders == map_mu.writer = 0

CanLockExclusive == map_mu.writer = 0 /\ map_mu.readers = {}

\* CanLockShared that does not wait for the exclusive holder.
CanLockShared_IgnoreWriter == TRUE

\* absl::ReaderMutexLock: no exclusive holder.
CanLockShared == map_mu.writer = 0

\* The call of caller t returns r.
Respond(t, r) ==
  /\ pc' = [pc EXCEPT ![t] = "idle"]
  /\ req' = [req EXCEPT ![t] = NoReq]
  /\ ret' = [ret EXCEPT ![t] = r]

\* The call of caller t goes on at `at`.
Goto(t, at) ==
  /\ pc' = [pc EXCEPT ![t] = at]
  /\ UNCHANGED <<req, ret>>

\* A handler starts on caller t with request r and goes to session-ensure.
Enter(t, r) ==
  /\ pc' = [pc EXCEPT ![t] = "ensure_lock"]
  /\ req' = [req EXCEPT ![t] = r]
  /\ ret' = [ret EXCEPT ![t] = NoRet]

\* Caller t is in no call.
Idle(t) == pc[t] = "idle" /\ cop[t].op = "none"

----------------------------------------------------------------------------
\* StartSession

\* StartSessionInvalid without the name check.
StartSessionInvalid_Never(request) == FALSE

StartSessionInvalid(request) == request.name = ""

StartSession(t, request) ==
  /\ Idle(t)
  /\ calls' = calls + 1
  /\ IF StartSessionInvalid(request)
       THEN Respond(t, Status("StartSession", "INVALID_ARGUMENT", "Name is empty."))
       ELSE Enter(t, [NoReq EXCEPT !.op = "StartSession", !.start = request,
                                   !.session_handle = SerializeAsString(request)])
  /\ UNCHANGED <<es_map, gd_map, map_mu, kb_made, gd_made, issued, world>>

----------------------------------------------------------------------------
\* StartSessionIfNecessary

\* absl::MutexLock lock(&map_mu_)
EnsureLock(t) ==
  /\ pc[t] = "ensure_lock"
  /\ CanLockExclusive
  /\ map_mu' = [map_mu EXCEPT !.writer = t]
  /\ Goto(t, "ensure")
  /\ UNCHANGED <<es_map, gd_map, calls, kb_made, gd_made, issued, world,
               clientVars>>

\* NeedsStore without the contains check: a store is constructed on every call.
NeedsStore_Always(session_handle) == TRUE

NeedsStore(session_handle) == ~Contains(es_map, session_handle)

\* NeedsOptimizer without the contains check.
NeedsOptimizer_Always(request, session_handle) == request.config.has_gd

NeedsOptimizer(request, session_handle) ==
  request.config.has_gd /\ ~Contains(gd_map, session_handle)

\* AfterEnsure that takes an Update to its gradients branch first.
AfterEnsure_GradientsFirst(r) ==
  CASE r.op = "Lookup" -> "lookup_lock"
    [] r.op = "Update" /\ ~MapEmpty(r.gradients) -> "gradients_lock"
    [] OTHER -> "values_lock"

\* Where a handler goes on after a successful session-ensure.
AfterEnsure(r) ==
  CASE r.op = "Lookup" -> "lookup_lock"
    [] r.op = "Update" /\ ~MapEmpty(r.values) -> "values_lock"
    [] OTHER -> "gradients_lock"

\* StartSessionIfNecessary that registers the new store only when the
\* optimizer was constructed too.
StartSessionIfNecessary_AllOrNothing(t) ==
  /\ pc[t] = "ensure"
  /\ map_mu.writer = t
  /\ LET session_handle == req[t].session_handle
         request == ParseFromString(session_handle)
         knowledge_bank == Make(request.config.backend,
                                request.config.embedding_dimension)
         newStore == NeedsStore(session_handle)
         storeFailed == newStore /\ ~knowledge_bank.present
         optimizer == Create(request.config.embedding_dimension, request.config)
         newOptimizer == ~storeFailed /\ NeedsOptimizer(request, session_handle)
         optimizerFailed == newOptimizer /\ ~optimizer.present
     IN /\ es_map' = IF newStore /\ ~storeFailed /\ ~optimizerFailed
                       THEN [es_map EXCEPT ![session_handle] = knowledge_bank]
                       ELSE es_map
        /\ kb_made' = IF newStore /\ ~storeFailed /\ ~optimizerFailed
                        THEN [kb_made EXCEPT ![session_handle] = @ + 1]
                        ELSE kb_made
        /\ gd_map' = IF newOptimizer /\ ~optimizerFailed
                       THEN [gd_map EXCEPT ![session_handle] = optimizer]
                       ELSE gd_map
        /\ gd_made' = IF newOptimizer /\ ~optimizerFailed
                        THEN [gd_made EXCEPT ![session_handle] = @ + 1]
                        ELSE gd_made
        /\ map_mu' = Unlocked
        /\ IF storeFailed
             THEN /\ Respond(t, Status(req[t].op, "INTERNAL",
                                       "Creating KnowledgeBank failed."))
                  /\ UNCHANGED issued
           ELSE IF optimizerFailed
             THEN /\ Respond(t, Status(req[t].op, "INTERNAL",
                                       "Creating GradientDescentOptimizer failed."))
                  /\ UNCHANGED issued
           ELSE IF req[t].op = "StartSession"
             THEN /\ Respond(t, [Status("StartSession", "OK", "")
                                   EXCEPT !.session_handle = session_handle])
                  /\ issued' = Append(issued, <<req[t].start, session_handle>>)
           ELSE /\ Goto(t, AfterEnsure(req[t]))
                /\ UNCHANGED issued
  /\ UNCHANGED <<calls, world, clientVars>>

StartSessionIfNecessary(t) ==
  /\ pc[t] = "ensure"
  /\ map_mu.writer = t
  /\ LET session_handle == req[t].session_handle
         request == ParseFromString(session_handle)
         knowledge_bank == Make(request.config.backend,
                                request.config.embedding_dimension)
         newStore == NeedsStore(session_handle)
         storeFailed == newStore /\ ~knowledge_bank.present
         optimizer == Create(request.config.embedding_dimension, request.config)
         newOptimizer == ~storeFailed /\ NeedsOptimizer(request, session_handle)
         optimizerFailed == newOptimizer /\ ~optimizer.present
     IN /\ es_map' = IF newStore /\ ~storeFailed
                       THEN [es_map EXCEPT ![session_handle] = knowledge_bank]
                       ELSE es_map
        /\ kb_made' = IF newStore /\ ~storeFailed
                        THEN [kb_made EXCEPT ![session_handle] = @ + 1]
                        ELSE kb_made
        /\ gd_map' = IF newOptimizer /\ ~optimizerFailed
                       THEN [gd_map EXCEPT ![session_handle] = optimizer]
                       ELSE gd_map
        /\ gd_made' = IF newOptimizer /\ ~optimizerFailed
                        THEN [gd_made EXCEPT ![session_handle] = @ + 1]
                        ELSE gd_made
        /\ map_mu' = Unlocked
        /\ IF storeFailed
             THEN /\ Respond(t, Status(req[t].op, "INTERNAL",
                                       "Creating KnowledgeBank failed."))
                  /\ UNCHANGED issued
           ELSE IF optimizerFailed
             THEN /\ Respond(t, Status(req[t].op, "INTERNAL",
                                       "Creating GradientDescentOptimizer failed."))
                  /\ UNCHANGED issued
           ELSE IF req[t].op = "StartSession"
             THEN /\ Respond(t, [Status("StartSession", "OK", "")
                                   EXCEPT !.session_handle = session_handle])
                  /\ issued' = Append(issued, <<req[t].start, session_handle>>)
           ELSE /\ Goto(t, AfterEnsure(req[t]))
                /\ UNCHANGED issued
  /\ UNCHANGED <<calls, world, clientVars>>

----------------------------------------------------------------------------
\* Lookup

\* LookupInvalid with StartSession's name check on the decoded handle.
LookupInvalid_NameChecked(request) ==
  IF request.session_handle = <<>> THEN "session_handle is empty."
  ELSE IF request.key = <<>> THEN "Empty input keys."
  ELSE IF ParseFromString(request.session_handle).name = ""
    THEN "Name is empty."
  ELSE ""

LookupInvalid(request) ==
  IF request.session_handle = <<>> THEN "session_handle is empty."
  ELSE IF request.key = <<>> THEN "Empty input keys."
  ELSE ""

Lookup(t, request) ==
  /\ Idle(t)
  /\ calls' = calls + 1
  /\ IF LookupInvalid(request) # ""
       THEN Respond(t, Status("Lookup", "INVALID_ARGUMENT", LookupInvalid(request)))
       ELSE Enter(t, [NoReq EXCEPT !.op = "Lookup",
                                   !.session_handle = request.session_handle,
                                   !.key = request.key,
                                   !.update = request.update])
  /\ UNCHANGED <<es_map, gd_map, map_mu, kb_made, gd_made, issued, world>>

\* LookupLock that takes the lock as absl::MutexLock does, exclusively.
LookupLock_Exclusive(t) ==
  /\ pc[t] = "lookup_lock"
  /\ CanLockExclusive
  /\ map_mu' = [map_mu EXCEPT !.writer = t]
  /\ Goto(t, "lookup")
  /\ UNCHANGED <<es_map, gd_map, calls, kb_made, gd_made, issued, world,
               clientVars>>

\* absl::ReaderMutexLock lock(&map_mu_)
LookupLock(t) ==
  /\ pc[t] = "lookup_lock"
  /\ CanLockShared
  /\ map_mu' = [map_mu EXCEPT !.readers = @ \cup {t}]
  /\ Goto(t, "lookup")
  /\ UNCHANGED <<es_map, gd_map, calls, kb_made, gd_made, issued, world,
               clientVars>>

\* LookupStore that takes the create-on-miss read whatever the flag says.
LookupStore_AlwaysUpdate(store, keys, update) ==
  BatchLookupWithUpdateStore(store, keys)

\* The store after the batch read the update flag selects.
LookupStore(store, keys, update) ==
  IF update THEN BatchLookupWithUpdateStore(store, keys) ELSE store

\* EmbeddingTable that gives a failed key a default (empty-dimension zero)
\* vector instead of leaving it out.
EmbeddingTable_KeepFailed(keys, value_or_errors) ==
  [k \in AllKeys |->
     IF \E i \in DOMAIN keys : keys[i] = k
       THEN (LET i == CHOOSE i \in DOMAIN keys : keys[i] = k
             IN IF value_or_errors[i] = Absent THEN <<0>> ELSE value_or_errors[i])
       ELSE Absent]

\* The response map: the vector of every key whose result is a vector.
EmbeddingTable(keys, value_or_errors) ==
  LET Hit(k) == {i \in DOMAIN keys : keys[i] = k /\ value_or_errors[i] # Absent}
      Max(S) == CHOOSE i \in S : \A j \in S : j <= i
  IN [k \in AllKeys |->
        IF Hit(k) = {} THEN Absent ELSE value_or_errors[Max(Hit(k))]]

LookupBody(t) ==
  /\ pc[t] = "lookup"
  /\ t \in map_mu.readers
  /\ LET session_handle == req[t].session_handle
         keys == req[t].key
         store == LookupStore(es_map[session_handle], keys, req[t].update)
     IN \E value_or_errors \in Returned(BatchLookup(store, keys)) :
          /\ es_map' = [es_map EXCEPT ![session_handle] = store]
          /\ IF Len(value_or_errors) # Len(keys)
               THEN Respond(t, [Status("Lookup", "INTERNAL",
                                 "Inconsistent result returned by BatchLookup()")
                                 EXCEPT !.results = Len(value_or_errors)])
               ELSE Respond(t, [Status("Lookup", "OK", "") EXCEPT
                              !.results = Len(value_or_errors),
                              !.embedding_table =
                                 EmbeddingTable(keys, value_or_errors)])
  /\ map_mu' = [map_mu EXCEPT !.readers = @ \ {t}]
  /\ UNCHANGED <<gd_map, calls, kb_made, gd_made, issued, world,
               clientVars>>

----------------------------------------------------------------------------
\* Update

UpdateInvalid(request) ==
  IF request.session_handle = <<>> THEN "session_handle is empty."
  ELSE IF MapEmpty(request.values) /\ MapEmpty(request.gradients)
    THEN "input is empty."
  ELSE ""

Update(t, request) ==
  /\ Idle(t)
  /\ calls' = calls + 1
  /\ IF UpdateInvalid(request) # ""
       THEN Respond(t, Status("Update", "INVALID_ARGUMENT", UpdateInvalid(request)))
       ELSE Enter(t, [NoReq EXCEPT !.op = "Update",
                                   !.session_handle = request.session_handle,
                                   !.values = request.values,
                                   !.gradients = request.gradients])
  /\ UNCHANGED <<es_map, gd_map, map_mu, kb_made, gd_made, issued, world>>

\* absl::WriterMutexLock lock(&map_mu_), values branch
ValuesLock(t) ==
  /\ pc[t] = "values_lock"
  /\ CanLockExclusive
  /\ map_mu' = [map_mu EXCEPT !.writer = t]
  /\ Goto(t, "values")
  /\ UNCHANGED <<es_map, gd_map, calls, kb_made, gd_made, issued, world,
               clientVars>>

\* The vectors of a map in the order its keys were collected.
Collect(m, keys) == [i \in DOMAIN keys |-> m[keys[i]]]

\* ValuesWrite that only inserts: a key the store holds keeps its vector.
ValuesWrite_InsertOnly(store, keys, values) ==
  [store EXCEPT !.tbl =
     [k \in AllKeys |->
        IF store.tbl[k] = Absent THEN BatchUpdate(store, keys, values).tbl[k]
        ELSE store.tbl[k]]]

\* The store after the values branch.
ValuesWrite(store, keys, values) == BatchUpdate(store, keys, values)

\* ValuesBranch that leaves the write to the end of the call when the
\* request has gradients too.
ValuesBranch_Deferred(t) ==
  /\ pc[t] = "values"
  /\ map_mu.writer = t
  /\ LET session_handle == req[t].session_handle IN
     \E keys \in IterOrders(req[t].values) :
       es_map' = [es_map EXCEPT ![session_handle] =
                    IF MapEmpty(req[t].gradients)
                      THEN ValuesWrite(@, keys, Collect(req[t].values, keys))
                      ELSE @]
  /\ map_mu' = Unlocked
  /\ IF MapEmpty(req[t].gradients)
       THEN Respond(t, Status("Update", "OK", ""))
       ELSE Goto(t, "gradients_lock")
  /\ UNCHANGED <<gd_map, calls, kb_made, gd_made, issued, world,
               clientVars>>

ValuesBranch(t) ==
  /\ pc[t] = "values"
  /\ map_mu.writer = t
  /\ LET session_handle == req[t].session_handle IN
     \E keys \in IterOrders(req[t].values) :
       es_map' = [es_map EXCEPT ![session_handle] =
                    ValuesWrite(@, keys, Collect(req[t].values, keys))]
  /\ map_mu' = Unlocked
  /\ IF MapEmpty(req[t].gradients)
       THEN Respond(t, Status("Update", "OK", ""))
       ELSE Goto(t, "gradients_lock")
  /\ UNCHANGED <<gd_map, calls, kb_made, gd_made, issued, world,
               clientVars>>

\* absl::WriterMutexLock lock(&map_mu_), gradients branch
GradientsLock(t) ==
  /\ pc[t] = "gradients_lock"
  /\ CanLockExclusive
  /\ map_mu' = [map_mu EXCEPT !.writer = t]
  /\ Goto(t, "gradients_fetch")
  /\ UNCHANGED <<es_map, gd_map, calls, kb_made, gd_made, issued, world,
               clientVars>>

\* The positions whose result is a vector, in request order.
ValidIndexes(value_or_errors) ==
  SelectSeq([i \in DOMAIN value_or_errors |-> i],
            LAMBDA i : value_or_errors[i] # Absent)

\* ValidKeys that takes every requested key for valid.
ValidKeys_All(keys, value_or_errors) == keys

ValidKeys(keys, value_or_errors) ==
  LET idx == ValidIndexes(value_or_errors) IN [j \in DOMAIN idx |-> keys[idx[j]]]

Embeddings(value_or_errors) ==
  LET idx == ValidIndexes(value_or_errors)
  IN [j \in DOMAIN idx |-> value_or_errors[idx[j]]]

\* GradientsOutcome that goes on to the write-back when the optimizer returned
\* no result.
GradientsOutcome_WriteOnFailure(store, optimizer, keys, value_or_errors, updated) ==
  IF ~optimizer.present
    THEN [msg |-> "Optimizer is not created, did you forget to add gradient_descent_config in DynamicEmbeddingConfig?",
          store |-> store]
  ELSE IF Len(value_or_errors) # Len(keys)
    THEN [msg |-> "Inconsistent result returned by BatchLookup()",
          store |-> store]
  ELSE IF ValidKeys(keys, value_or_errors) = <<>>
    THEN [msg |-> "No valid keys for gradient update.", store |-> store]
  ELSE [msg |-> IF updated = <<>>
                  THEN "Applying gradient update returned error: " ELSE "",
        store |-> BatchUpdate(store, ValidKeys(keys, value_or_errors),
                    IF updated = <<>>
                      THEN [i \in DOMAIN ValidKeys(keys, value_or_errors) |->
                              ZeroVector(store.dimension)]
                      ELSE updated)]

\* The outcome of the gradients branch on `store`: its status message ("" for
\* success) and the store it leaves.
GradientsOutcome(store, optimizer, keys, value_or_errors, updated) ==
  IF ~optimizer.present
    THEN [msg |-> "Optimizer is not created, did you forget to add gradient_descent_config in DynamicEmbeddingConfig?",
          store |-> store]
  ELSE IF Len(value_or_errors) # Len(keys)
    THEN [msg |-> "Inconsistent result returned by BatchLookup()",
          store |-> store]
  ELSE IF ValidKeys(keys, value_or_errors) = <<>>
    THEN [msg |-> "No valid keys for gradient update.", store |-> store]
  ELSE IF updated = <<>>
    THEN [msg |-> "Applying gradient update returned error: ", store |-> store]
  ELSE [msg |-> "",
        store |-> BatchUpdate(store, ValidKeys(keys, value_or_errors),
                              updated)]

\* Gradients that keeps the gradients of the valid keys only.
Gradients_ValidOnly(m, keys, value_or_errors) ==
  Collect(m, ValidKeys(keys, value_or_errors))

\* The gradients handed to Apply: one per requested key, in the order of
\* keys, whatever the fetch returned.
Gradients(m, keys, value_or_errors) == Collect(m, keys)

\* Step One: the keys in the map's iteration order, and, when the session
\* has an optimizer, the BatchLookup of the current vectors.
GradientsFetch(t) ==
  /\ pc[t] = "gradients_fetch"
  /\ map_mu.writer = t
  /\ LET session_handle == req[t].session_handle
         store == es_map[session_handle]
     IN \E keys \in IterOrders(req[t].gradients) :
        \E value_or_errors \in
             (IF Contains(gd_map, session_handle)
                THEN Returned(BatchLookup(store, keys)) ELSE {<<>>}) :
          req' = [req EXCEPT ![t].keys = keys,
                             ![t].value_or_errors = value_or_errors]
  /\ pc' = [pc EXCEPT ![t] = "gradients"]
  /\ UNCHANGED <<es_map, gd_map, map_mu, ret, calls, kb_made, gd_made, issued,
                 world, clientVars>>

\* GradientsBranch with a lock released by hand after the write-back only:
\* an error return leaves it held.
GradientsBranch_KeepLockOnError(t) ==
  /\ pc[t] = "gradients"
  /\ map_mu.writer = t
  /\ LET session_handle == req[t].session_handle
         store == es_map[session_handle]
         optimizer == gd_map[session_handle]
         keys == req[t].keys
         value_or_errors == req[t].value_or_errors
     IN \E updated_embeddings \in
             ApplyResults(optimizer, Embeddings(value_or_errors),
                          Gradients(req[t].gradients, keys, value_or_errors)) :
          LET out == GradientsOutcome(store, optimizer, keys, value_or_errors,
                                      updated_embeddings)
          IN /\ es_map' = [es_map EXCEPT ![session_handle] = out.store]
             /\ Respond(t, Status("Update",
                                  IF out.msg = "" THEN "OK" ELSE "INTERNAL",
                                  out.msg))
             /\ map_mu' = IF out.msg = "" THEN Unlocked ELSE map_mu
  /\ UNCHANGED <<gd_map, calls, kb_made, gd_made, issued, world,
               clientVars>>

\* Steps Two and Three: Apply, and the write-back to the valid keys.
GradientsBranch(t) ==
  /\ pc[t] = "gradients"
  /\ map_mu.writer = t
  /\ LET session_handle == req[t].session_handle
         store == es_map[session_handle]
         optimizer == gd_map[session_handle]
         keys == req[t].keys
         value_or_errors == req[t].value_or_errors
     IN \E updated_embeddings \in
             ApplyResults(optimizer, Embeddings(value_or_errors),
                          Gradients(req[t].gradients, keys, value_or_errors)) :
          LET out == GradientsOutcome(store, optimizer, keys, value_or_errors,
                                      updated_embeddings)
          IN /\ es_map' = [es_map EXCEPT ![session_handle] = out.store]
             /\ Respond(t, Status("Update",
                                  IF out.msg = "" THEN "OK" ELSE "INTERNAL",
                                  out.msg))
  /\ map_mu' = Unlocked
  /\ UNCHANGED <<gd_map, calls, kb_made, gd_made, issued, world,
               clientVars>>

----------------------------------------------------------------------------
\* KnowledgeBankSize

KnowledgeBankSize(t) ==
  /\ Idle(t)
  /\ calls' = calls + 1
  /\ pc' = [pc EXCEPT ![t] = "size_lock"]
  /\ req' = [req EXCEPT ![t] = [NoReq EXCEPT !.op = "Size"]]
  /\ ret' = [ret EXCEPT ![t] = NoRet]
  /\ UNCHANGED <<es_map, gd_map, map_mu, kb_made, gd_made, issued, world>>

\* absl::ReaderMutexLock lock(&map_mu_)
SizeLock(t) ==
  /\ pc[t] = "size_lock"
  /\ CanLockShared
  /\ map_mu' = [map_mu EXCEPT !.readers = @ \cup {t}]
  /\ Goto(t, "size")
  /\ UNCHANGED <<es_map, gd_map, calls, kb_made, gd_made, issued, world,
               clientVars>>

SizeBody(t) ==
  /\ pc[t] = "size"
  /\ t \in map_mu.readers
  /\ Respond(t, [Status("Size", "OK", "") EXCEPT !.size = MapSize(es_map)])
  /\ map_mu' = [map_mu EXCEPT !.readers = @ \ {t}]
  /\ UNCHANGED <<es_map, gd_map, calls, kb_made, gd_made, issued, world,
               clientVars>>

----------------------------------------------------------------------------

\* Export: the store of the session writes its snapshot under the directory.
Export(t, request) ==
  /\ Idle(t)
  /\ calls' = calls + 1
  /\ pc' = [pc EXCEPT ![t] = "export"]
  /\ req' = [req EXCEPT ![t] =
               [NoReq EXCEPT !.op = "Export",
                             !.session_handle = request.session_handle,
                             !.export_directory = request.export_directory]]
  /\ ret' = [ret EXCEPT ![t] = NoRet]
  /\ UNCHANGED <<es_map, gd_map, map_mu, kb_made, gd_made, issued, world>>

ExportBody(t) ==
  /\ pc[t] = "export"
  /\ CanLockShared
  /\ LET session_handle == req[t].session_handle
         path == ExportPath(req[t].export_directory,
                            ParseFromString(session_handle).name)
     IN IF Contains(es_map, session_handle)
          THEN /\ files' = [files EXCEPT ![path] =
                              ExportStore(es_map[session_handle])]
               /\ Respond(t, [Status("Export", "OK", "")
                                EXCEPT !.exported_path = path])
          ELSE /\ files' = files
               /\ Respond(t, Status("Export", "INTERNAL", "Export failed."))
  /\ UNCHANGED <<es_map, gd_map, map_mu, calls, kb_made, gd_made, issued,
                 world, de_manager, cop, cret, client_calls>>

\* Import: the store of the session is replaced by the snapshot at the path.
Import(t, request) ==
  /\ Idle(t)
  /\ calls' = calls + 1
  /\ pc' = [pc EXCEPT ![t] = "import"]
  /\ req' = [req EXCEPT ![t] =
               [NoReq EXCEPT !.op = "Import",
                             !.session_handle = request.session_handle,
                             !.import_path = request.import_path]]
  /\ ret' = [ret EXCEPT ![t] = NoRet]
  /\ UNCHANGED <<es_map, gd_map, map_mu, kb_made, gd_made, issued, world>>

ImportBody(t) ==
  /\ pc[t] = "import"
  /\ CanLockExclusive
  /\ LET session_handle == req[t].session_handle
         file == files[req[t].import_path]
     IN IF Contains(es_map, session_handle) /\ file.exists
          THEN /\ es_map' = [es_map EXCEPT ![session_handle] =
                               ImportStore(@, file)]
               /\ Respond(t, Status("Import", "OK", ""))
          ELSE /\ es_map' = es_map
               /\ Respond(t, Status("Import", "INTERNAL", "Import failed."))
  /\ UNCHANGED <<gd_map, map_mu, calls, kb_made, gd_made, issued, world,
                 clientVars>>

----------------------------------------------------------------------------
\* The steps inside StartSession, Lookup and Update.
Step(t) ==
  \/ EnsureLock(t)
  \/ StartSessionIfNecessary(t)
  \/ LookupLock(t)
  \/ LookupBody(t)
  \/ ValuesLock(t)
  \/ ValuesBranch(t)
  \/ GradientsLock(t)
  \/ GradientsFetch(t)
  \/ GradientsBranch(t)

\* A caller sends a request straight to the service, while fewer than `limit`
\* calls have been made.
RpcStartSession(t, limit) ==
  /\ calls < limit
  /\ \E request \in world : StartSession(t, request)
  /\ UNCHANGED clientVars

RpcLookup(t, limit) ==
  /\ calls < limit
  /\ \E request \in LookupRequests(world) : Lookup(t, request)
  /\ UNCHANGED clientVars

RpcUpdate(t, limit) ==
  /\ calls < limit
  /\ \E request \in UpdateRequests(world) : Update(t, request)
  /\ UNCHANGED clientVars

RpcSize(t, limit) ==
  /\ calls < limit
  /\ KnowledgeBankSize(t)
  /\ UNCHANGED clientVars

\* Concurrent callers.
Next ==
  \E t \in Threads :
    \/ RpcStartSession(t, MaxCalls)
    \/ RpcLookup(t, MaxCalls)
    \/ RpcUpdate(t, MaxCalls)
    \/ RpcSize(t, MaxCalls)
    \/ SizeLock(t)
    \/ SizeBody(t)
    \/ Step(t)

Spec == Init /\ [][Next]_vars

\* The next step of the call caller t is in.
Run(t) == Step(t) \/ SizeLock(t) \/ SizeBody(t)

\* The requests of the fair runs: every shape of request (no key or some,
\* with or without update, values or none, gradients or none), on the one
\* key "a" for keys and values.
FairLookupRequests(requests) ==
  {r \in LookupRequests(requests) : Len(r.key) <= 1}

FairUpdateRequests(requests) ==
  {r \in UpdateRequests(requests) : r.values["b"] = Absent}

RpcFairLookup(t, limit) ==
  /\ calls < limit
  /\ \E request \in FairLookupRequests(world) : Lookup(t, request)
  /\ UNCHANGED clientVars

RpcFairUpdate(t, limit) ==
  /\ calls < limit
  /\ \E request \in FairUpdateRequests(world) : Update(t, request)
  /\ UNCHANGED clientVars

NextFair ==
  \E t \in Threads :
    \/ RpcStartSession(t, MaxFairCalls)
    \/ RpcFairLookup(t, MaxFairCalls)
    \/ RpcFairUpdate(t, MaxFairCalls)
    \/ RpcSize(t, MaxFairCalls)
    \/ SizeLock(t)
    \/ SizeBody(t)
    \/ Step(t)

\* Concurrent callers whose handler threads keep running: a call that can
\* take its next step for good takes it.
SpecFair == Init /\ [][NextFair]_vars /\ \A t \in Threads : WF_vars(Run(t))

\* One caller that sends Updates only, among them Updates whose gradients
\* are for a key their values do not name.
UpdateGradientMaps == GradientMaps \cup {[EmptyMap EXCEPT !["c"] = <<5, 6>>]}

WideUpdateRequests(requests) ==
  [session_handle : HandlesOf(requests), values : ValueMaps,
   gradients : UpdateGradientMaps]

RpcWideUpdate(t, limit) ==
  /\ calls < limit
  /\ \E request \in WideUpdateRequests(world) : Update(t, request)
  /\ UNCHANGED clientVars

NextUpdate ==
  \/ RpcWideUpdate(1, MaxUpdateCalls)
  \/ EnsureLock(1)
  \/ StartSessionIfNecessary(1)
  \/ ValuesLock(1)
  \/ ValuesBranch(1)
  \/ GradientsLock(1)
  \/ GradientsFetch(1)
  \/ GradientsBranch(1)

SpecUpdate == Init /\ [][NextUpdate]_vars

\* One caller, one call after the other.
NextSeq ==
  \/ RpcStartSession(1, MaxSeqCalls)
  \/ RpcLookup(1, MaxSeqCalls)
  \/ RpcUpdate(1, MaxSeqCalls)
  \/ RpcSize(1, MaxSeqCalls)
  \/ SizeLock(1)
  \/ SizeBody(1)
  \/ Step(1)

SpecSeq == Init /\ [][NextSeq]_vars

----------------------------------------------------------------------------
\* DynamicEmbeddingManager, the client-side batch manager.

RECURSIVE Product(_)
Product(shape) == IF shape = <<>> THEN 1 ELSE Head(shape) * Product(Tail(shape))

NumElements(tensor) == Product(tensor.shape)

\* The trailing axis of a value tensor, and the element count of the others.
LastDim(tensor) == tensor.shape[Len(tensor.shape)]

OuterCount(tensor) == Product(SubSeq(tensor.shape, 1, Len(tensor.shape) - 1))

\* Row i of a value tensor whose trailing axis is dim.
Row(flat, i, dim) == SubSeq(flat, (i - 1) * dim + 1, i * dim)

RECURSIVE Concat(_)
Concat(rows) == IF rows = <<>> THEN <<>> ELSE Head(rows) \o Concat(Tail(rows))

ConfigWellFormed(config) ==
  config.embedding_dimension # 0 /\ config.backend # ""

\* UpdateInputError that checks the trailing dimension before the key count.
UpdateInputError_DimensionFirst(manager, keys, values) ==
  IF NumElements(keys) = 0
    THEN Message("Input key is empty.", 0, 0)
  ELSE IF LastDim(values) # manager.config.embedding_dimension
    THEN Message("Inconsistent embedding dimension, got %d expect %d",
                 LastDim(values), manager.config.embedding_dimension)
  ELSE IF NumElements(keys) # OuterCount(values)
    THEN Message("Inconsistent keys size and values size: %d v.s. %d",
                 NumElements(keys), OuterCount(values))
  ELSE Message("", 0, 0)

\* The first failing check of UpdateValues / UpdateGradients, or no message.
UpdateInputError(manager, keys, values) ==
  IF NumElements(keys) = 0
    THEN Message("Input key is empty.", 0, 0)
  ELSE IF NumElements(keys) # OuterCount(values)
    THEN Message("Inconsistent keys size and values size: %d v.s. %d",
                 NumElements(keys), OuterCount(values))
  ELSE IF LastDim(values) # manager.config.embedding_dimension
    THEN Message("Inconsistent embedding dimension, got %d expect %d",
                 LastDim(values), manager.config.embedding_dimension)
  ELSE Message("", 0, 0)

\* KeyedRows that keeps the row of the empty key.
KeyedRows_KeepEmpty(keys, values) ==
  LET dim == LastDim(values)
      At(k) == {i \in DOMAIN keys.flat : keys.flat[i] = k}
      Max(S) == CHOOSE i \in S : \A j \in S : j <= i
  IN [k \in AllKeys |->
        IF At(k) = {} THEN Absent
        ELSE Row(values.flat, Max(At(k)), dim)]

\* The key -> vector map of an update: every non-empty key with its row.
KeyedRows(keys, values) ==
  LET dim == LastDim(values)
      At(k) == {i \in DOMAIN keys.flat : keys.flat[i] = k}
      Max(S) == CHOOSE i \in S : \A j \in S : j <= i
  IN [k \in AllKeys |->
        IF k = "" \/ At(k) = {} THEN Absent
        ELSE Row(values.flat, Max(At(k)), dim)]

\* Scatter that packs the resolved vectors and pads the end with zeros.
Scatter_Packed(keys, embedding_table, dim) ==
  LET Resolved(i) == keys.flat[i] # "" /\ embedding_table[keys.flat[i]] # Absent
      found == SelectSeq([i \in DOMAIN keys.flat |-> i], Resolved)
  IN [shape |-> keys.shape \o <<dim>>,
      flat |-> Concat([n \in DOMAIN keys.flat |->
                         IF n <= Len(found)
                           THEN embedding_table[keys.flat[found[n]]]
                           ELSE ZeroVector(dim)])]

\* The output of Lookup: per position the resolved vector, or zeros for the
\* empty key and for a key the response does not hold.
Scatter(keys, embedding_table, dim) ==
  [shape |-> keys.shape \o <<dim>>,
   flat |-> Concat([i \in DOMAIN keys.flat |->
                      IF keys.flat[i] = "" \/ embedding_table[keys.flat[i]] = Absent
                        THEN ZeroVector(dim)
                        ELSE embedding_table[keys.flat[i]]])]

KeyTensors ==
  { EmptyTensor,
    [shape |-> <<2>>, flat |-> <<"a", "">>],
    [shape |-> <<2>>, flat |-> <<"", "b">>],
    [shape |-> <<2, 2>>, flat |-> <<"a", "b", "c", "">>] }

ValueTensors ==
  { EmptyTensor,
    [shape |-> <<2, 2>>, flat |-> <<10, 30, 20, -10>>],
    [shape |-> <<2, 2, 2>>, flat |-> <<0, 1, 2, 3, 4, 5, 6, 7>>],
    [shape |-> <<3, 2>>, flat |-> <<1, 2, 3, 4, 5, 6>>],
    [shape |-> <<2, 4>>, flat |-> <<1, 2, 3, 4, 5, 6, 7, 8>>],
    [shape |-> <<3, 4>>, flat |-> <<1, 2, 3, 4, 5, 6, 7, 8, 9, 10, 11, 12>>] }

\* The (keys, values) pairs the callers pass; a non-empty key batch comes with
\* a value tensor of rank two or more.
UpdateInputs ==
  {in \in [keys : KeyTensors, values : ValueTensors] :
     in.keys # EmptyTensor => in.values # EmptyTensor}

Addresses == {"", "localhost"}

\* A manager call that fails its local checks: no request leaves the caller.
\* The return keeps the arguments the call was made with.
FailLocally(t, op, msg, keys, values) ==
  /\ cret' = [cret EXCEPT ![t] =
                [NoCret EXCEPT !.op = op, !.local = TRUE, !.msg = msg,
                               !.keys = keys, !.values = values]]
  /\ UNCHANGED <<es_map, gd_map, map_mu, pc, req, ret, calls, kb_made,
                 gd_made, issued, world, cop, files>>

CanCallClient(t, limit) == Idle(t) /\ client_calls < limit

\* DynamicEmbeddingManager::Create: each caller holds one manager.
ClientCreate(t, limit) ==
  /\ CanCallClient(t, limit)
  /\ ~de_manager[t].created
  /\ client_calls' = client_calls + 1
  /\ \E request \in world, address \in Addresses :
       IF address = "" \/ ~ConfigWellFormed(request.config)
         THEN /\ de_manager' = [de_manager EXCEPT ![t] = NoManager]
              /\ FailLocally(t, "Create", Message("", 0, 0), EmptyTensor, EmptyTensor)
         ELSE /\ cop' = [cop EXCEPT ![t] =
                           [NoCop EXCEPT !.op = "Create",
                                         !.config = request.config,
                                         !.name = request.name]]
              /\ StartSession(t, [name |-> request.name, has_config |-> TRUE,
                                  config |-> request.config])
              /\ UNCHANGED <<de_manager, cret>>
  /\ UNCHANGED files

\* DynamicEmbeddingManager::Lookup
ClientLookup(t, limit) ==
  /\ CanCallClient(t, limit)
  /\ de_manager[t].created
  /\ client_calls' = client_calls + 1
  /\ \E keys \in KeyTensors, update \in BOOLEAN :
       IF NumElements(keys) = 0
         THEN FailLocally(t, "Lookup", Message("No input.", 0, 0), keys, EmptyTensor)
         ELSE /\ cop' = [cop EXCEPT ![t] =
                           [NoCop EXCEPT !.op = "Lookup", !.keys = keys]]
              /\ Lookup(t, [session_handle |-> de_manager[t].session_handle,
                            key |-> keys.flat, update |-> update])
              /\ UNCHANGED cret
  /\ UNCHANGED <<de_manager, files>>

\* DynamicEmbeddingManager::UpdateValues
ClientUpdateValues(t, limit) ==
  /\ CanCallClient(t, limit)
  /\ de_manager[t].created
  /\ client_calls' = client_calls + 1
  /\ \E in \in UpdateInputs :
       LET error == UpdateInputError(de_manager[t], in.keys, in.values) IN
       IF error.text # ""
         THEN FailLocally(t, "UpdateValues", error, in.keys, in.values)
         ELSE /\ cop' = [cop EXCEPT ![t] =
                           [NoCop EXCEPT !.op = "UpdateValues", !.keys = in.keys,
                                         !.values = in.values]]
              /\ Update(t, [session_handle |-> de_manager[t].session_handle,
                            values |-> KeyedRows(in.keys, in.values),
                            gradients |-> EmptyMap])
              /\ UNCHANGED cret
  /\ UNCHANGED <<de_manager, files>>

\* DynamicEmbeddingManager::UpdateGradients
ClientUpdateGradients(t, limit) ==
  /\ CanCallClient(t, limit)
  /\ de_manager[t].created
  /\ client_calls' = client_calls + 1
  /\ \E in \in UpdateInputs :
       LET error == UpdateInputError(de_manager[t], in.keys, in.values) IN
       IF error.text # ""
         THEN FailLocally(t, "UpdateGradients", error, in.keys, in.values)
         ELSE /\ cop' = [cop EXCEPT ![t] =
                           [NoCop EXCEPT !.op = "UpdateGradients",
                                         !.keys = in.keys,
                                         !.values = in.values]]
              /\ Update(t, [session_handle |-> de_manager[t].session_handle,
                            values |-> EmptyMap,
                            gradients |-> KeyedRows(in.keys, in.values)])
              /\ UNCHANGED cret
  /\ UNCHANGED <<de_manager, files>>

\* The request of a manager call has returned: the call returns.
ClientReturn(t) ==
  /\ pc[t] = "idle"
  /\ cop[t].op # "none"
  /\ cop' = [cop EXCEPT ![t] = NoCop]
  /\ de_manager' =
       IF cop[t].op # "Create" THEN de_manager
       ELSE [de_manager EXCEPT ![t] =
               IF ret[t].code = "OK"
                 THEN [created |-> TRUE,
                       session_handle |-> ret[t].session_handle,
                       config |-> cop[t].config, name |-> cop[t].name]
                 ELSE NoManager]
  /\ cret' = [cret EXCEPT ![t] =
       [op |-> cop[t].op,
        ok |-> ret[t].code = "OK",
        local |-> FALSE,
        msg |-> Message(ret[t].msg, 0, 0),
        keys |-> cop[t].keys,
        values |-> cop[t].values,
        output |-> IF cop[t].op = "Lookup" /\ ret[t].code = "OK"
                     THEN Scatter(cop[t].keys, ret[t].embedding_table,
                                  de_manager[t].config.embedding_dimension)
                     ELSE EmptyTensor]]
  /\ UNCHANGED <<es_map, gd_map, map_mu, pc, req, ret, calls, kb_made,
                 gd_made, issued, world, client_calls, files>>

\* DynamicEmbeddingManager::Export
ClientExport(t, limit) ==
  /\ CanCallClient(t, limit)
  /\ de_manager[t].created
  /\ client_calls' = client_calls + 1
  /\ \E directory \in Directories :
       /\ cop' = [cop EXCEPT ![t] = [NoCop EXCEPT !.op = "Export"]]
       /\ Export(t, [session_handle |-> de_manager[t].session_handle,
                     export_directory |-> directory])
  /\ UNCHANGED <<de_manager, cret, files>>

\* DynamicEmbeddingManager::Import
ClientImport(t, limit) ==
  /\ CanCallClient(t, limit)
  /\ de_manager[t].created
  /\ client_calls' = client_calls + 1
  /\ \E path \in Paths :
       /\ cop' = [cop EXCEPT ![t] = [NoCop EXCEPT !.op = "Import"]]
       /\ Import(t, [session_handle |-> de_manager[t].session_handle,
                     import_path |-> path])
  /\ UNCHANGED <<de_manager, cret, files>>

NextClient ==
  \E t \in Threads :
    \/ ClientCreate(t, MaxClientCalls)
    \/ ClientLookup(t, MaxClientCalls)
    \/ ClientUpdateValues(t, MaxClientCalls)
    \/ ClientUpdateGradients(t, MaxClientCalls)
    \/ ClientReturn(t)
    \/ Step(t)

SpecClient == Init /\ [][NextClient]_vars

\* One manager that writes values, looks them up, and exports and imports
\* snapshots of its session.
InitSnapshot == Init /\ world = {GoodRequest, DefaultRequest}

NextSnapshot ==
  \/ ClientCreate(1, MaxSnapshotCalls)
  \/ ClientLookup(1, MaxSnapshotCalls)
  \/ ClientUpdateValues(1, MaxSnapshotCalls)
  \/ ClientExport(1, MaxSnapshotCalls)
  \/ ClientImport(1, MaxSnapshotCalls)
  \/ ClientReturn(1)
  \/ EnsureLock(1)
  \/ StartSessionIfNecessary(1)
  \/ LookupLock(1)
  \/ LookupBody(1)
  \/ ValuesLock(1)
  \/ ValuesBranch(1)
  \/ ExportBody(1)
  \/ ImportBody(1)

SpecSnapshot == InitSnapshot /\ [][NextSnapshot]_vars

----------------------------------------------------------------------------
\* Properties.

\* Caller t takes the step that leaves `at`.
Leaves(t, at) == pc[t] = at /\ pc'[t] # at

\* Caller t is past a successful session-ensure of its call.
Ensured(t) ==
  pc[t] \in {"lookup_lock", "lookup", "values_lock", "values",
             "gradients_lock", "gradients_fetch", "gradients"}

\* C1: StartSession is idempotent. When a StartSession repeats a request that
\* an earlier StartSession answered with OK, whatever Lookup and Update calls
\* ran in between, it returns OK with the handle returned before, constructs
\* neither a store nor an optimizer, and leaves every store, vector and
\* optimizer as it was.
C1_StartSessionIdempotent ==
  [][\A t \in Threads :
       ( /\ Leaves(t, "ensure")
         /\ req[t].op = "StartSession"
         /\ \E i \in DOMAIN issued : issued[i][1] = req[t].start )
       => /\ ret'[t].code = "OK"
          /\ \A i \in DOMAIN issued :
               issued[i][1] = req[t].start
                 => ret'[t].session_handle = issued[i][2]
          /\ es_map' = es_map
          /\ gd_map' = gd_map
          /\ kb_made' = kb_made
          /\ gd_made' = gd_made]_vars

\* A second StartSession with the request of the first has returned OK, after
\* the session's store was given a vector.
C1_Witness ==
  /\ Len(issued) = 2
  /\ issued[1] = issued[2]
  /\ es_map[issued[2][2]].tbl["a"] # Absent
  /\ ret[1].op = "StartSession"
  /\ ret[1].code = "OK"
  /\ ret[1].session_handle = issued[1][2]

\* C2: session creation is race-free. In every interleaving of concurrent
\* calls at most one store and at most one optimizer is ever constructed for
\* a handle, the registry holds exactly the constructed ones, and every call
\* that is past session-ensure finds exactly one store for its handle and,
\* when the handle carries a gradient-descent config, exactly one optimizer.
C2_SessionCreationRaceFree ==
  /\ \A h \in Handles :
       /\ kb_made[h] = (IF Contains(es_map, h) THEN 1 ELSE 0)
       /\ gd_made[h] = (IF Contains(gd_map, h) THEN 1 ELSE 0)
  /\ \A t \in Threads :
       Ensured(t)
         => /\ kb_made[req[t].session_handle] = 1
            /\ ParseFromString(req[t].session_handle).config.has_gd
                 => gd_made[req[t].session_handle] = 1

\* Two concurrent calls with the same handle, which carries a
\* gradient-descent config, are both past session-ensure.
C2_Witness ==
  /\ Ensured(1)
  /\ Ensured(2)
  /\ req[1].session_handle = req[2].session_handle
  /\ ParseFromString(req[1].session_handle).config.has_gd
  /\ kb_made[req[1].session_handle] = 1
  /\ gd_made[req[1].session_handle] = 1

\* The handles for which a store has been constructed.
Constructed == {h \in Handles : kb_made[h] > 0}

\* The malformed requests of each kind.
MalformedStartSessions == {request \in SessionRequests : request.name = ""}

MalformedLookups ==
  {request \in LookupRequests(SessionRequests) :
     request.session_handle = <<>> \/ request.key = <<>>}

MalformedUpdates ==
  {request \in UpdateRequests(SessionRequests) :
     \/ request.session_handle = <<>>
     \/ MapEmpty(request.values) /\ MapEmpty(request.gradients)}

\* C3: malformed requests are rejected before the session is ensured.
\* StartSession with an empty name, Lookup with an empty handle or an empty
\* key list, and Update with an empty handle or with values and gradients
\* both empty never get inside session-ensure or beyond: no caller that is in
\* a call holds such a request. The step that receives one therefore returns
\* at once, and it returns INVALID_ARGUMENT and changes no registry entry and
\* no store.
C3_MalformedRejected ==
  /\ [](\A t \in Threads :
          pc[t] # "idle"
            => /\ req[t].op = "StartSession" => req[t].start.name # ""
               /\ req[t].op \in {"Lookup", "Update"}
                    => req[t].session_handle # <<>>
               /\ req[t].op = "Lookup" => req[t].key # <<>>
               /\ req[t].op = "Update"
                    => ~(MapEmpty(req[t].values) /\ MapEmpty(req[t].gradients)))
  /\ [][\A t \in Threads :
          (calls' # calls /\ pc' = pc /\ pc[t] = "idle")
            => /\ \A request \in MalformedStartSessions :
                    StartSession(t, request)
                      => /\ ret'[t].code = "INVALID_ARGUMENT"
                         /\ UNCHANGED <<es_map, gd_map, kb_made, gd_made>>
               /\ \A request \in MalformedLookups :
                    Lookup(t, request)
                      => /\ ret'[t].code = "INVALID_ARGUMENT"
                         /\ UNCHANGED <<es_map, gd_map, kb_made, gd_made>>
               /\ \A request \in MalformedUpdates :
                    Update(t, request)
                      => /\ ret'[t].code = "INVALID_ARGUMENT"
                         /\ UNCHANGED <<es_map, gd_map, kb_made, gd_made>>]_vars

\* Two malformed calls have been rejected, and no session exists.
C3_Witness ==
  /\ ret[1].code = "INVALID_ARGUMENT"
  /\ ret[1].msg = "Name is empty."
  /\ ret[2].code = "INVALID_ARGUMENT"
  /\ ret[2].msg = "input is empty."
  /\ Constructed = {}
  /\ MapSize(es_map) = 0

\* C4: the registry only grows. No step removes or replaces the store of a
\* registered handle, so Size never decreases; the steps of a Size call
\* change neither the registry nor any store; and Size returns the number of
\* handles for which a store was constructed.
C4_RegistryOnlyGrows ==
  [][/\ \A h \in Handles :
          Contains(es_map, h)
            => Contains(es_map', h) /\ kb_made'[h] = kb_made[h]
     /\ MapSize(es_map') >= MapSize(es_map)
     /\ \A t \in Threads :
          /\ (pc[t] \in {"size_lock", "size"} \/ pc'[t] = "size_lock")
               /\ pc'[t] # pc[t]
               => UNCHANGED <<es_map, gd_map, kb_made, gd_made>>
          /\ Leaves(t, "size")
               => /\ ret'[t].code = "OK"
                  /\ ret'[t].size = Cardinality(Constructed)]_vars

\* Size has returned 2 with two sessions registered, one of them without an
\* optimizer.
C4_Witness ==
  /\ ret[1].op = "Size"
  /\ ret[1].size = 2
  /\ Cardinality(Constructed) = 2
  /\ \E h \in Constructed : ~Contains(gd_map, h)

\* C5: a Lookup past session-ensure returns OK exactly when the store handed
\* back one result per requested key, and INTERNAL otherwise. On OK the
\* response holds exactly the requested keys the store has a vector for, each
\* with that vector; a key without one is left out, and a Lookup all of whose
\* keys fail still returns OK, with an empty map.
C5_LookupPartialResults ==
  [][\A t \in Threads :
       Leaves(t, "lookup")
         => LET keys == req[t].key
                store == es_map'[req[t].session_handle]
            IN /\ ret'[t].code = (IF ret'[t].results = Len(keys)
                                    THEN "OK" ELSE "INTERNAL")
               /\ ret'[t].code = "OK"
                    => \A k \in AllKeys :
                         ret'[t].embedding_table[k] =
                           (IF k \in Range(keys) THEN store.tbl[k] ELSE Absent)]_vars

\* A Lookup of two keys has returned OK with the vector of one of them only.
C5_Witness ==
  /\ ret[1].op = "Lookup"
  /\ ret[1].code = "OK"
  /\ ret[1].results = 2
  /\ MapKeys(ret[1].embedding_table) = {"a"}

\* The vector tables of all stores.
Tables == [h \in Handles |-> es_map[h].tbl]

\* C6: the update flag of Lookup decides whether the store may change. The
\* store access of a Lookup with update=true leaves every requested key in
\* the session's store: a key that was absent holds the initial (zero)
\* vector and a successful call returns it, every other vector is unchanged.
\* No step of a Lookup with update=false adds a key to or changes a vector
\* of any session's store.
C6_UpdateFlag ==
  [][\A t \in Threads :
       LET h == req[t].session_handle
           keys == req[t].key
       IN /\ (Leaves(t, "lookup") /\ req[t].update)
               => /\ \A k \in AllKeys :
                       es_map'[h].tbl[k] =
                         (IF k \in Range(keys) /\ es_map[h].tbl[k] = Absent
                            THEN ZeroVector(es_map[h].dimension)
                            ELSE es_map[h].tbl[k])
                  /\ \A k \in Range(keys) : es_map'[h].tbl[k] # Absent
                  /\ ret'[t].code = "OK"
                       => \A k \in Range(keys) :
                            ret'[t].embedding_table[k] = es_map'[h].tbl[k]
                  /\ \A g \in Handles \ {h} : es_map'[g] = es_map[g]
          /\ (req[t].op = "Lookup" /\ ~req[t].update /\ pc'[t] # pc[t])
               => Tables' = Tables]_vars

\* A Lookup with update=true on keys the store did not hold has returned
\* their zero vectors, and the store now holds them.
C6_Witness ==
  \E h \in Handles :
    /\ ret[1].op = "Lookup"
    /\ ret[1].code = "OK"
    /\ ret[1].embedding_table["a"] = <<0, 0>>
    /\ ret[1].embedding_table["b"] = <<0, 0>>
    /\ es_map[h].tbl["a"] = <<0, 0>>
    /\ es_map[h].tbl["b"] = <<0, 0>>
    /\ calls = 1

\* C7: the values branch of Update is an unconditional overwrite. The step
\* that runs it leaves every key of the values map with exactly the supplied
\* vector, whatever the store held for it, and every other key and every
\* other session unchanged; a Lookup with update=false that returns OK
\* returns, for each requested key, the vector the store holds.
C7_ValuesOverwrite ==
  [][\A t \in Threads :
       LET h == req[t].session_handle IN
       /\ Leaves(t, "values")
            => /\ \A k \in AllKeys :
                    es_map'[h].tbl[k] =
                      (IF req[t].values[k] # Absent THEN req[t].values[k]
                       ELSE es_map[h].tbl[k])
               /\ \A g \in Handles \ {h} : es_map'[g] = es_map[g]
       /\ (Leaves(t, "lookup") /\ ~req[t].update /\ ret'[t].code = "OK")
            => \A k \in Range(req[t].key) :
                 ret'[t].embedding_table[k] = es_map[h].tbl[k]]_vars

\* An Update has overwritten the vector another Update wrote for key "a", and
\* a Lookup has then returned the vectors of the second one.
C7_Witness ==
  \E h \in Handles :
    /\ calls = 3
    /\ ret[1].op = "Lookup"
    /\ ret[1].code = "OK"
    /\ ret[1].embedding_table["a"] = <<10, 30>>
    /\ ret[1].embedding_table["b"] = <<-50, 10>>
    /\ es_map[h].tbl["a"] = <<10, 30>>
    /\ es_map[h].tbl["b"] = <<-50, 10>>

\* C8: every failure of the gradient branch is an internal error without
\* write-back. The step that runs the branch returns OK or INTERNAL; when it
\* does not return OK it leaves every store and optimizer as it found them;
\* it returns INTERNAL when the session has no optimizer and when the store
\* holds none of the gradient keys; and it returns OK only with the message
\* of no failure.
C8_GradientFailures ==
  [][\A t \in Threads :
       Leaves(t, "gradients")
         => LET h == req[t].session_handle IN
            /\ ret'[t].code \in {"OK", "INTERNAL"}
            /\ ret'[t].code = "INTERNAL"
                 => /\ es_map' = es_map
                    /\ gd_map' = gd_map
                    /\ ret'[t].msg \in
                         {"Optimizer is not created, did you forget to add gradient_descent_config in DynamicEmbeddingConfig?",
                          "Inconsistent result returned by BatchLookup()",
                          "No valid keys for gradient update.",
                          "Applying gradient update returned error: "}
            /\ ret'[t].code = "OK" => ret'[t].msg = ""
            /\ ~Contains(gd_map, h) => ret'[t].code = "INTERNAL"
            /\ (\A k \in MapKeys(req[t].gradients) : es_map[h].tbl[k] = Absent)
                 => ret'[t].code = "INTERNAL"
            /\ ret'[t].msg = "Applying gradient update returned error: "
                 => /\ Contains(gd_map, h)
                    /\ \E k \in MapKeys(req[t].gradients) :
                         es_map[h].tbl[k] # Absent]_vars

\* One gradient Update has failed for want of a valid key, another because
\* the optimizer returned no result; the store holds the vectors the values
\* branch wrote.
C8_Witness ==
  \E h \in Handles :
    /\ ret[1].code = "INTERNAL"
    /\ ret[1].msg = "No valid keys for gradient update."
    /\ ret[2].code = "INTERNAL"
    /\ ret[2].msg = "Applying gradient update returned error: "
    /\ es_map[h].tbl["a"] = <<20, -10>>
    /\ es_map[h].tbl["b"] = <<-50, 10>>

\* The calls of the manager that write vectors.
UpdateOps == {"UpdateValues", "UpdateGradients"}

\* The last position of a key batch that holds key k, or 0.
LastAt(keys, k) ==
  LET At == {i \in DOMAIN keys.flat : keys.flat[i] = k}
  IN IF At = {} THEN 0 ELSE CHOOSE i \in At : \A j \in At : j <= i

\* C9: the empty-string key is padding on the manager side. The Update
\* request that UpdateValues or UpdateGradients issues holds no entry for the
\* empty key; no step of such a call adds, removes or changes the empty key's
\* entry of any store; when the values branch of UpdateValues has run, the
\* store holds for every other key of the batch the row of the value tensor
\* at that key's position, as the request does; when the gradients branch of
\* UpdateGradients has returned OK on a store that held every other key of the
\* batch, each of them has moved by the learning rate times the gradient row
\* at that key's position; and the
\* output of a successful Lookup has the shape of the key batch with the
\* embedding dimension appended and is all zero at every position that holds
\* the empty key.
C9_EmptyKeyPadding ==
  [][\A t \in Threads :
       LET h == req[t].session_handle
           keys == cop[t].keys
           values == cop[t].values
           dim == de_manager[t].config.embedding_dimension
           Others == {k \in AllKeys : k # "" /\ LastAt(keys, k) # 0}
       IN
       /\ (cop[t].op = "none" /\ cop'[t].op \in UpdateOps)
            => LET sent == IF cop'[t].op = "UpdateValues"
                             THEN req'[t].values ELSE req'[t].gradients
                   batch == cop'[t].keys
               IN /\ req'[t].values[""] = Absent
                  /\ req'[t].gradients[""] = Absent
                  /\ ret'[t].code # "INVALID_ARGUMENT"
                  /\ \A k \in AllKeys \ {""} :
                       sent[k] = IF LastAt(batch, k) = 0 THEN Absent
                                 ELSE Row(cop'[t].values.flat,
                                          LastAt(batch, k), dim)
       /\ (cop[t].op \in UpdateOps /\ pc'[t] # pc[t])
            => \A g \in Handles : es_map'[g].tbl[""] = es_map[g].tbl[""]
       /\ (cop[t].op = "UpdateValues" /\ Leaves(t, "values"))
            => \A k \in Others :
                 es_map'[h].tbl[k] = Row(values.flat, LastAt(keys, k), dim)
       /\ (cop[t].op = "UpdateGradients" /\ Leaves(t, "gradients")
             /\ ret'[t].code = "OK"
             /\ \A k \in Others : es_map[h].tbl[k] # Absent)
            => \A k \in Others :
                 es_map'[h].tbl[k] =
                   [j \in 1..dim |->
                      es_map[h].tbl[k][j]
                        - gd_map[h].learning_rate
                            * Row(values.flat, LastAt(keys, k), dim)[j]]
       /\ (cop[t].op = "Lookup" /\ cop'[t].op = "none" /\ cret'[t].ok)
            => /\ cret'[t].output.shape = keys.shape \o <<dim>>
               /\ \A i \in DOMAIN keys.flat :
                    keys.flat[i] = ""
                      => Row(cret'[t].output.flat, i, dim) = ZeroVector(dim)]_vars

\* A manager wrote the batch <<"a", "">> with UpdateValues, and a Lookup of
\* that batch returned the row of "a" followed by zeros, while no store holds
\* the empty key.
C9_Witness ==
  \E t \in Threads :
    /\ cret[t].op = "Lookup"
    /\ cret[t].ok
    /\ cret[t].keys.flat = <<"a", "">>
    /\ cret[t].output = [shape |-> <<2, 2>>, flat |-> <<10, 30, 0, 0>>]
    /\ \A g \in Handles : es_map[g].tbl[""] = Absent

\* The message a manager call returns when it fails its local checks on the
\* arguments the return keeps, for a manager of embedding dimension e.
LocalFailure(r, e) ==
  LET n == NumElements(r.keys)
      m == OuterCount(r.values)
      d == LastDim(r.values)
  IN IF r.op = "Lookup"
       THEN n = 0 /\ r.msg = Message("No input.", 0, 0)
     ELSE
       /\ n = 0 \/ n # m \/ d # e
       /\ n = 0 => r.msg = Message("Input key is empty.", 0, 0)
       /\ (n # 0 /\ n # m)
            => r.msg = Message("Inconsistent keys size and values size: %d v.s. %d",
                               n, m)
       /\ (n # 0 /\ n = m)
            => r.msg = Message("Inconsistent embedding dimension, got %d expect %d",
                               d, e)

\* C10: the manager validates its arguments locally. A Lookup, UpdateValues
\* or UpdateGradients that failed locally was called with arguments that fail
\* a check, and its message is that of the first failing check: "No input."
\* for a Lookup of an empty key batch; for the updates "Input key is empty.",
\* then the key count against the outer value count, then the trailing
\* dimension against the configured dimension, each with its two numbers. A
\* call that fails locally issues no request and leaves the stores, the
\* optimizers, every caller's position and the number of requests served as
\* they were; and a call that does issue a request has arguments that pass
\* every check, and issues exactly one.
C10_LocalValidation ==
  /\ [](\A t \in Threads :
          (cret[t].local /\ cret[t].op \in {"Lookup"} \cup UpdateOps)
            => /\ ~cret[t].ok
               /\ LocalFailure(cret[t],
                               de_manager[t].config.embedding_dimension))
  /\ [][/\ (client_calls' # client_calls /\ cop' = cop)
             => /\ \E t \in Threads : cret'[t].local
                /\ UNCHANGED <<es_map, gd_map, map_mu, pc, req, ret, calls,
                               kb_made, gd_made, issued>>
        /\ \A t \in Threads :
             LET e == de_manager[t].config.embedding_dimension
                 keys == cop'[t].keys
                 values == cop'[t].values
             IN (cop[t].op = "none" /\ cop'[t].op \in {"Lookup"} \cup UpdateOps)
                  => /\ calls' = calls + 1
                     /\ NumElements(keys) # 0
                     /\ cop'[t].op \in UpdateOps
                          => /\ NumElements(keys) = OuterCount(values)
                             /\ LastDim(values) = e]_vars

\* An UpdateValues of four keys with three rows of four values, wrong in count
\* and in dimension, has failed locally with the count message; the server has
\* served the one StartSession of Create and its store is empty.
C10_Witness ==
  \E t \in Threads :
    /\ cret[t].local
    /\ cret[t].op = "UpdateValues"
    /\ cret[t].keys.flat = <<"a", "b", "c", "">>
    /\ cret[t].values.shape = <<3, 4>>
    /\ cret[t].msg =
         Message("Inconsistent keys size and values size: %d v.s. %d", 4, 3)
    /\ calls = 1
    /\ \A h \in Handles, k \in AllKeys : es_map[h].tbl[k] = Absent

\* C11: the manager's Lookup scatters by position. When the Lookup request of
\* a manager call has returned, the call succeeds exactly when the request
\* did; the output of a successful call has the shape of the key batch with
\* the embedding dimension appended; and its row at each row-major position is
\* the vector the response holds for the key at that position, or all zero
\* when the key is empty or the response holds no vector for it.
C11_LookupScatter ==
  [][\A t \in Threads :
       (cop[t].op = "Lookup" /\ cop'[t].op = "none")
         => LET keys == cop[t].keys
                dim == de_manager[t].config.embedding_dimension
                table == ret[t].embedding_table
                out == cret'[t].output
            IN /\ cret'[t].ok = (ret[t].code = "OK")
               /\ cret'[t].ok
                    => /\ out.shape = keys.shape \o <<dim>>
                       /\ Len(out.flat) = Len(keys.flat) * dim
                       /\ \A i \in DOMAIN keys.flat :
                            Row(out.flat, i, dim) =
                              IF keys.flat[i] # "" /\ table[keys.flat[i]] # Absent
                                THEN table[keys.flat[i]]
                                ELSE ZeroVector(dim)]_vars

\* After an UpdateValues of the batch <<"", "b">>, a Lookup of the 2-D batch
\* a, b, c, "" without the update flag returned the row of "b" at the second
\* position and zeros at the three other positions.
C11_Witness ==
  \E t \in Threads :
    /\ cret[t].op = "Lookup"
    /\ cret[t].ok
    /\ cret[t].keys = [shape |-> <<2, 2>>, flat |-> <<"a", "b", "c", "">>]
    /\ cret[t].output =
         [shape |-> <<2, 2, 2>>, flat |-> <<0, 0, 20, -10, 0, 0, 0, 0>>]

\* The vector a snapshot file holds for key k, or Absent.
SnapshotVector(file, k) ==
  LET At == {i \in DOMAIN file.entries : file.entries[i].key = k}
  IN IF At = {} THEN Absent ELSE file.entries[CHOOSE i \in At : TRUE].vector

\* C12: Export followed by Import restores the exported state. An Export that
\* returns OK returns the path directory/name/embedding_store_meta_data.pbtxt,
\* leaves the store as it is, and the file at that path then holds for every
\* key the vector the store holds, and no vector for a key the store does not
\* hold. No other step changes a file, whatever is written to the store
\* afterwards. An Import that returns OK leaves the store holding for every
\* key exactly what the file at its path holds, and nothing else; an Import
\* that fails changes no store. A Lookup without the update flag then returns
\* for each of its keys the vector the store holds.
C12_ExportImportRoundTrip ==
  [][\A t \in Threads :
       LET h == req[t].session_handle IN
       /\ (Leaves(t, "export") /\ ret'[t].code = "OK")
            => /\ ret'[t].exported_path =
                    <<req[t].export_directory, de_manager[t].name,
                      "embedding_store_meta_data.pbtxt">>
               /\ es_map' = es_map
               /\ files'[ret'[t].exported_path].exists
               /\ \A k \in AllKeys :
                    SnapshotVector(files'[ret'[t].exported_path], k)
                      = es_map[h].tbl[k]
       /\ (\A u \in Threads : ~Leaves(u, "export")) => files' = files
       /\ Leaves(t, "import")
            => /\ ret'[t].code \in {"OK", "INTERNAL"}
               /\ ret'[t].code = "OK" <=> files[req[t].import_path].exists
               /\ ret'[t].code = "OK"
                    => \A k \in AllKeys :
                         es_map'[h].tbl[k] =
                           SnapshotVector(files[req[t].import_path], k)
               /\ ret'[t].code # "OK" => es_map' = es_map
               /\ \A g \in Handles \ {h} : es_map'[g] = es_map[g]
       /\ (Leaves(t, "lookup") /\ ~req[t].update /\ ret'[t].code = "OK")
            => \A i \in DOMAIN req[t].key :
                 ret'[t].embedding_table[req[t].key[i]]
                   = es_map[h].tbl[req[t].key[i]]]_vars

\* The manager wrote "b", exported, overwrote "b" and wrote "a" and "c" with
\* an UpdateValues that has returned, and its Import of the exported path has
\* just returned OK: the store holds the exported vector of "b" and neither
\* "a" nor "c".
C12_Witness ==
  LET h == de_manager[1].session_handle IN
  /\ ret[1].op = "Import"
  /\ ret[1].code = "OK"
  /\ cret[1].op = "UpdateValues"
  /\ cret[1].ok
  /\ cret[1].keys.flat = <<"a", "b", "c", "">>
  /\ es_map[h].tbl["b"] = <<20, -10>>
  /\ es_map[h].tbl["a"] = Absent
  /\ es_map[h].tbl["c"] = Absent

\* Where a call is inside an exclusive section of the registry lock
\* (session-ensure, values write, gradient fetch+apply+write-back) and where
\* it is inside a shared one (Lookup store access, Size read).
InExclusive(t) ==
  pc[t] \in {"ensure", "values", "gradients_fetch", "gradients"}

InShared(t) == pc[t] \in {"lookup", "size"}

\* C13: writer exclusion on the registry lock. While a caller is inside
\* session-ensure, a values write or a gradient branch, it is the exclusive
\* holder of the lock and no other caller is inside session-ensure, an Update
\* branch, a Lookup store access or a Size read, whatever sessions the calls
\* address; the lock's readers are exactly the callers inside a Lookup store
\* access or a Size read.
C13_WriterExclusion ==
  /\ \A t \in Threads :
       InExclusive(t)
         => /\ map_mu.writer = t
            /\ map_mu.readers = {}
            /\ \A u \in Threads \ {t} : ~InExclusive(u) /\ ~InShared(u)
  /\ map_mu.readers = {t \in Threads : InShared(t)}
  /\ map_mu.writer # 0 => InExclusive(map_mu.writer)

\* Two callers are inside a Lookup store access at once, on different
\* sessions or the same one, while no one holds the lock exclusively.
C13_Witness ==
  /\ pc[1] = "lookup"
  /\ pc[2] = "lookup"
  /\ map_mu = [writer |-> 0, readers |-> {1, 2}]

\* C14: the gradient branch is atomic. While a caller is between the fetch
\* and the write-back of its gradient branch, the results it fetched are the
\* vectors the store holds now (one per key, up to the number of results the
\* store handed back); and a step that leaves it there changes no store and
\* is no other caller's Lookup store access, values write, gradient fetch or
\* gradient write-back. So the write-back is computed from the store as it is
\* when it is written, and no gradient update is lost.
C14_GradientBranchAtomic ==
  /\ [](\A t \in Threads :
          (pc[t] = "gradients" /\ Contains(gd_map, req[t].session_handle))
            => LET store == es_map[req[t].session_handle] IN
               /\ Len(req[t].value_or_errors) <= Len(req[t].keys)
               /\ \A i \in DOMAIN req[t].value_or_errors :
                    req[t].value_or_errors[i] = store.tbl[req[t].keys[i]])
  /\ [][\A t \in Threads :
          (pc[t] = "gradients" /\ pc'[t] = "gradients")
            => /\ es_map' = es_map
               /\ \A u \in Threads \ {t} :
                    /\ ~Leaves(u, "lookup")
                    /\ ~Leaves(u, "values")
                    /\ ~Leaves(u, "gradients_fetch")
                    /\ ~Leaves(u, "gradients")]_vars

\* Two callers sent the same Update, values for "a" and "b" and gradients
\* for both; both returned OK and the store holds "a" and "b" moved by both
\* gradients from the values written.
C14_Witness ==
  \E h \in Handles :
    /\ ret[1].op = "Update" /\ ret[1].code = "OK"
    /\ ret[2].op = "Update" /\ ret[2].code = "OK"
    /\ es_map[h].tbl["a"] = <<20 - 1 - 1, -10 - 2 - 2>>
    /\ es_map[h].tbl["b"] = <<-50 - 3 - 3, 10 - 4 - 4>>

\* C15: within one Update the values write comes before the gradient fetch,
\* and the two are not one atomic step. A caller comes to wait for the lock
\* of its gradients branch either from its values write, which has put every
\* vector of the values map in the store and released the lock, or straight
\* from session-ensure when its request has no values; it starts the gradient
\* fetch only from that wait; and while it waits it does not hold the lock,
\* so other callers' store accesses can run in between.
C15_ValuesThenGradients ==
  /\ [](\A t \in Threads :
          pc[t] = "gradients_lock"
            => /\ map_mu.writer # t
               /\ t \notin map_mu.readers
               /\ req[t].op = "Update"
               /\ ~MapEmpty(req[t].gradients))
  /\ [][\A t \in Threads :
          LET h == req[t].session_handle IN
          /\ (pc[t] # "gradients_lock" /\ pc'[t] = "gradients_lock")
               => \/ /\ pc[t] = "values"
                     /\ map_mu' = Unlocked
                     /\ \A k \in MapKeys(req[t].values) :
                          es_map'[h].tbl[k] = req[t].values[k]
                  \/ /\ pc[t] = "ensure"
                     /\ MapEmpty(req[t].values)
          /\ (pc[t] # "gradients_fetch" /\ pc'[t] = "gradients_fetch")
               => pc[t] = "gradients_lock"
          /\ (Leaves(t, "values") /\ ~MapEmpty(req[t].gradients))
               => pc'[t] = "gradients_lock"]_vars

\* Caller 1 has written <<10, 30>> for "a" and waits for the lock of its
\* gradients branch; meanwhile caller 2's Update has returned OK and the
\* store holds its vector for "a" instead.
C15_Witness ==
  \E h \in Handles :
    /\ pc[1] = "gradients_lock"
    /\ req[1].session_handle = h
    /\ req[1].values["a"] = <<10, 30>>
    /\ ret[2].op = "Update"
    /\ ret[2].code = "OK"
    /\ es_map[h].tbl["a"] = <<20, -10>>

\* The statement that a started Lookup holds the registry lock in shared mode
\* at every step between input validation and return.
C16_SharedWholeCall ==
  \A t \in Threads :
    (pc[t] # "idle" /\ req[t].op = "Lookup") => t \in map_mu.readers

\* C16: a Lookup holds the registry lock in shared mode from the start of
\* its store access to its return, and only then. During session-ensure it
\* holds the lock exclusively; while it waits for either lock it holds
\* nothing. Its store access, the mutation of lookup-with-update included,
\* is made with the shared lock held, changes no store but its own
\* session's, and gives the lock back with the response.
C16_LookupLockModes ==
  /\ [](\A t \in Threads :
          req[t].op = "Lookup"
            => /\ pc[t] \in {"ensure_lock", "ensure", "lookup_lock", "lookup"}
               /\ (t \in map_mu.readers) <=> (pc[t] = "lookup")
               /\ (map_mu.writer = t) <=> (pc[t] = "ensure"))
  /\ [][\A t \in Threads :
          /\ (req[t].op = "Lookup" /\ pc'[t] = "lookup" /\ pc[t] # "lookup")
               => /\ pc[t] = "lookup_lock"
                  /\ map_mu.writer = 0
                  /\ es_map' = es_map
          /\ Leaves(t, "lookup")
               => /\ t \in map_mu.readers
                  /\ map_mu.writer = 0
                  /\ map_mu'.readers = map_mu.readers \ {t}
                  /\ pc'[t] = "idle"
                  /\ ret'[t].op = "Lookup"
                  /\ \A h \in DOMAIN es_map :
                       h # req[t].session_handle => es_map'[h] = es_map[h]]_vars

\* Caller 1's Lookup has passed session-ensure and waits for the shared
\* lock, holding nothing, while caller 2 holds the lock exclusively.
C16_Witness ==
  /\ pc[1] = "lookup_lock"
  /\ req[1].op = "Lookup"
  /\ req[1].update
  /\ map_mu.writer = 2
  /\ 1 \notin map_mu.readers

\* The gradient step of an optimizer with learning rate lr on one vector.
Moved(vector, lr, gradient) ==
  [j \in DOMAIN vector |-> vector[j] - lr * gradient[j]]

\* C17: in the gradient branch the optimizer is given the current vectors of
\* the keys the store holds, in request order, and the gradients of all the
\* requested keys, in request order. So when the branch succeeds, the n-th
\* key the store holds is moved by the gradient of the n-th requested key:
\* its own gradient when the store holds every requested key before it, the
\* gradient of another key otherwise; and when some fetch failed the vectors
\* are fewer than the gradients.
C17_ApplyPairsByPosition ==
  [][\A t \in Threads :
       (Leaves(t, "gradients") /\ ret'[t].code = "OK")
         => LET h == req[t].session_handle
                keys == req[t].keys
                store == es_map[h]
                lr == gd_map[h].learning_rate
                held == {i \in DOMAIN keys : store.tbl[keys[i]] # Absent}
                rank(i) == Cardinality({j \in held : j <= i})
            IN /\ held # {}
               /\ Len(Embeddings(req[t].value_or_errors)) = Cardinality(held)
               /\ Cardinality(held) <= Len(keys)
               /\ (held # DOMAIN keys) => Cardinality(held) < Len(keys)
               /\ \A i \in held :
                    /\ Embeddings(req[t].value_or_errors)[rank(i)]
                         = store.tbl[keys[i]]
                    /\ es_map'[h].tbl[keys[i]] =
                         Moved(store.tbl[keys[i]], lr,
                               req[t].gradients[keys[rank(i)]])
                    /\ (\A j \in 1..i : j \in held)
                         => es_map'[h].tbl[keys[i]] =
                              Moved(store.tbl[keys[i]], lr,
                                    req[t].gradients[keys[i]])]_vars

\* An Update with the vector <<10, 30>> for "a" and gradients <<1, 2>> for
\* "a" and <<3, 4>> for "b" returned OK on a store that never held "b", and
\* "a" has been moved by the gradient sent for "b".
C17_Witness ==
  \E t \in Threads, h \in Handles :
    /\ ret[t].op = "Update"
    /\ ret[t].code = "OK"
    /\ es_map[h].present
    /\ es_map[h].tbl["a"] = <<10 - 3, 30 - 4>>
    /\ es_map[h].tbl["b"] = Absent

\* C18: a gradient branch that succeeds writes to the keys the store held
\* at the fetch and to no other. Every key whose vector it changes is a
\* requested key the store already held; the store holds the same keys after
\* it as before, so a gradient for a key the store never saw creates
\* nothing; every key that was not both requested and held keeps its vector;
\* and no other session's store changes.
C18_WriteBackToValidKeys ==
  [][\A t \in Threads :
       (Leaves(t, "gradients") /\ ret'[t].code = "OK")
         => LET h == req[t].session_handle
                before == es_map[h].tbl
                after == es_map'[h].tbl
                valid == {k \in MapKeys(req[t].gradients) : before[k] # Absent}
            IN /\ valid # {}
               /\ valid = {req[t].keys[i] :
                             i \in {j \in DOMAIN req[t].keys :
                                      req[t].value_or_errors[j] # Absent}}
               /\ {k \in AllKeys : after[k] # Absent}
                    = {k \in AllKeys : before[k] # Absent}
               /\ \A k \in AllKeys \ valid : after[k] = before[k]
               /\ \A k \in valid : Len(after[k]) = Len(before[k])
               /\ \A g \in DOMAIN es_map : g # h => es_map'[g] = es_map[g]]_vars

\* An Update with the vector <<10, 30>> for "a" and gradients for "a" and
\* "b" returned OK: "a" has been moved by its own gradient <<1, 2>> and the
\* store still does not hold "b".
C18_Witness ==
  \E t \in Threads, h \in Handles :
    /\ ret[t].op = "Update"
    /\ ret[t].code = "OK"
    /\ es_map[h].present
    /\ es_map[h].tbl["a"] = <<10 - 1, 30 - 2>>
    /\ es_map[h].tbl["b"] = Absent

\* C19: every call completes and gives the lock back. A started call
\* eventually returns (at every moment each caller is, or will again be, in
\* no call); a caller that is in no call holds the registry lock
\* in no mode, whatever return path its last call took; a step that ends a
\* call leaves a status of that call, OK or INTERNAL, and releases what the
\* caller held; and whenever some call is in progress, some call in progress
\* can take its next step, so no reachable state is a deadlock.
C19_EveryCallReturns ==
  /\ \A t \in Threads : []<>(pc[t] = "idle")
  /\ [](\A t \in Threads :
          pc[t] = "idle" => (map_mu.writer # t /\ t \notin map_mu.readers))
  /\ []((\E t \in Threads : pc[t] # "idle")
          => \E t \in Threads : pc[t] # "idle" /\ ENABLED Run(t))
  /\ [][\A t \in Threads :
          (pc[t] # "idle" /\ pc'[t] = "idle")
            => /\ ret'[t].op = req[t].op
               /\ ret'[t].code \in {"OK", "INTERNAL"}
               /\ map_mu.writer = t \/ t \in map_mu.readers
               /\ map_mu'.writer # t
               /\ t \notin map_mu'.readers]_vars

\* Caller 1's Update has returned INTERNAL from its gradient branch for want
\* of a valid key, the lock is free again, and caller 2, which started
\* later, is inside its own exclusive section.
C19_Witness ==
  /\ pc[1] = "idle"
  /\ ret[1].op = "Update"
  /\ ret[1].code = "INTERNAL"
  /\ ret[1].msg = "No valid keys for gradient update."
  /\ map_mu.writer = 2
  /\ pc[2] \in {"ensure", "values", "gradients_fetch", "gradients"}

\* The messages of the failures of the gradient branch.
GradientFailures ==
  {"Optimizer is not created, did you forget to add gradient_descent_config in DynamicEmbeddingConfig?",
   "Inconsistent result returned by BatchLookup()",
   "No valid keys for gradient update.",
   "Applying gradient update returned error: "}

\* C20: a failed gradient branch does not undo the values write of its
\* Update. When one caller's Update with values and gradients returns from
\* its gradient branch, it returns OK or an internal error with one of the
\* branch's failure messages; and when it returns the error, every key of
\* the values map holds the vector the request supplied for it.
C20_ValuesKeptOnFailure ==
  [][(Leaves(1, "gradients") /\ ~MapEmpty(req[1].values))
       => LET h == req[1].session_handle IN
          /\ ret'[1].op = "Update"
          /\ ret'[1].code \in {"OK", "INTERNAL"}
          /\ (ret'[1].code = "OK") <=> (ret'[1].msg \notin GradientFailures)
          /\ ret'[1].code = "INTERNAL"
               => /\ es_map'[h].present
                  /\ \A k \in MapKeys(req[1].values) :
                       es_map'[h].tbl[k] = req[1].values[k]]_vars

\* The first Update of a run, with the vector <<10, 30>> for "a" and a
\* gradient for "c" only, has returned the internal error of a branch without
\* valid key, and the store, which did not exist before the call, holds "a".
C20_Witness ==
  \E h \in Handles :
    /\ calls = 1
    /\ pc[1] = "idle"
    /\ ret[1].op = "Update"
    /\ ret[1].code = "INTERNAL"
    /\ ret[1].msg = "No valid keys for gradient update."
    /\ es_map[h].present
    /\ es_map[h].tbl["a"] = <<10, 30>>
    /\ es_map[h].tbl["c"] = Absent

\* The handle decodes to a request with a gradient-descent config.
WantsOptimizer(h) == ParseFromString(h).config.has_gd

\* C21: session creation is not all-or-nothing. A session-ensure that returns
\* the error of a failed optimizer construction leaves the handle with a
\* store and without an optimizer: the store it has just constructed and
\* registered, so that Size has grown by one, or, on a later call with the
\* same handle, the store registered before, untouched and not constructed
\* again. Every session-ensure on a handle that wants an optimizer and has a
\* store but no optimizer attempts the construction: it ends with the
\* optimizer registered or with that error. And in every state a handle that
\* has an optimizer has a store.
C21_CreationNotAllOrNothing ==
  /\ [](\A h \in Handles : Contains(gd_map, h) => Contains(es_map, h))
  /\ [][\A t \in Threads :
          Leaves(t, "ensure")
            => LET h == req[t].session_handle
                   failed == ret'[t].msg
                               = "Creating GradientDescentOptimizer failed."
               IN /\ failed
                       => /\ pc'[t] = "idle"
                          /\ ret'[t].code = "INTERNAL"
                          /\ Contains(es_map', h)
                          /\ ~Contains(gd_map', h)
                          /\ gd_map' = gd_map
                          /\ kb_made'[h] = 1
                          /\ IF Contains(es_map, h)
                               THEN es_map' = es_map /\ kb_made' = kb_made
                               ELSE /\ MapSize(es_map') = MapSize(es_map) + 1
                                    /\ kb_made[h] = 0
                  /\ (WantsOptimizer(h) /\ Contains(es_map', h))
                       => (failed \/ Contains(gd_map', h))]_vars

\* A call is inside session-ensure for a handle that wants an optimizer and
\* has a store, constructed once by an earlier call, and no optimizer.
C21_Witness ==
  \E h \in Handles :
    /\ pc[1] = "ensure"
    /\ req[1].session_handle = h
    /\ WantsOptimizer(h)
    /\ Contains(es_map, h)
    /\ ~Contains(gd_map, h)
    /\ kb_made[h] = 1
    /\ gd_made[h] = 0
    /\ MapSize(es_map) = 1

\* The well-formed Lookup and Update requests whose handle decodes to a
\* request without name.
NamelessLookups ==
  {request \in LookupRequests(SessionRequests) :
     /\ request.session_handle # <<>>
     /\ request.key # <<>>
     /\ ParseFromString(request.session_handle).name = ""}

NamelessUpdates ==
  {request \in UpdateRequests(SessionRequests) :
     /\ request.session_handle # <<>>
     /\ ~(MapEmpty(request.values) /\ MapEmpty(request.gradients))
     /\ ParseFromString(request.session_handle).name = ""}

\* The decoded configuration of handle h constructs a store.
ConstructsStore(h) ==
  LET config == ParseFromString(h).config
  IN Make(config.backend, config.embedding_dimension).present

\* C22: Lookup and Update create sessions themselves, without StartSession's
\* name check. A Lookup or Update with a non-empty handle and non-empty input
\* enters session-ensure even when its handle decodes to a request without
\* name; its session-ensure registers a store for any handle not yet
\* registered whose decoded configuration constructs one, and the call goes
\* on to its store access unless the optimizer construction fails. No
\* StartSession answers OK to a request without name, and a step that
\* registers a handle decoding to no name is the session-ensure of a Lookup
\* or an Update.
C22_ImplicitSessionWithoutNameCheck ==
  /\ [](\A i \in DOMAIN issued : issued[i][1].name # "")
  /\ [][\A t \in Threads :
          LET h == req[t].session_handle IN
          /\ (calls' # calls /\ pc[t] = "idle" /\ pc'[t] # "size_lock")
               => /\ \A request \in NamelessLookups :
                       Lookup(t, request) => pc'[t] = "ensure_lock"
                  /\ \A request \in NamelessUpdates :
                       Update(t, request) => pc'[t] = "ensure_lock"
          /\ ( /\ Leaves(t, "ensure")
               /\ req[t].op \in {"Lookup", "Update"}
               /\ ~Contains(es_map, h)
               /\ ConstructsStore(h) )
               => /\ h # <<>>
                  /\ Contains(es_map', h)
                  /\ kb_made'[h] = 1
                  /\ MapSize(es_map') = MapSize(es_map) + 1
                  /\ \/ Ensured(t)'
                     \/ ret'[t].msg = "Creating GradientDescentOptimizer failed."
          /\ \A g \in Handles :
               ( /\ ~Contains(es_map, g)
                 /\ Contains(es_map', g)
                 /\ ParseFromString(g).name = "" )
               => \E u \in Threads :
                    /\ Leaves(u, "ensure")
                    /\ req[u].op \in {"Lookup", "Update"}
                    /\ req[u].session_handle = g]_vars

\* A Lookup with update has returned OK with the zero vector for "a" from
\* the only registered session, whose handle decodes to a request without
\* name; no StartSession has returned OK.
C22_Witness ==
  \E h \in Handles :
    /\ ParseFromString(h).name = ""
    /\ Contains(es_map, h)
    /\ MapSize(es_map) = 1
    /\ issued = <<>>
    /\ pc[1] = "idle"
    /\ ret[1].op = "Lookup"
    /\ ret[1].code = "OK"
    /\ ret[1].embedding_table["a"] = <<0, 0>>

====
